---- MODULE Spec2Model ----
(***************************************************************************)
(* StatusLed: a non-blocking LED blinker (StatusLed.h / StatusLed.cpp).    *)
(*                                                                         *)
(* The object owns three fields (_pin, _state, _lastToggle).  begin()      *)
(* configures the pin and drives it LOW; blink(intervalMs) reads millis()  *)
(* and, when intervalMs has elapsed since _lastToggle (unsigned            *)
(* subtraction), flips _state, writes the level and stores the clock.      *)
(*                                                                         *)
(* unsigned long is modelled at a reduced width: all unsigned arithmetic   *)
(* is taken modulo 2^ulongBits.                                            *)
(***************************************************************************)
EXTENDS Integers, Sequences, FiniteSets

(***************************************************************************)
(* Bounds of the model.                                                    *)
(***************************************************************************)
\* width of unsigned long in the general specifications (the targets have
\* 32 bits; the properties below also hold at 4 bits)
ClockBits == 3
\* width of unsigned long in the reference scenario (1000 must fit)
ScenarioBits == 10
\* longest call trace recorded in the reference scenario
MaxTrace == 5
\* width of unsigned long in the stepwise specification
StepBits == 2
\* width of unsigned long in the specification of two execution contexts
\* (its property also holds at 2 bits, with 947440 states)
ConcBits == 1

\* the pins of the board that the model looks at; 13 is the on-board LED
Pins == {12, 13}

VARIABLES
    ulongBits,      \* width of unsigned long on the target, fixed per run
    _pin,           \* StatusLed::_pin
    _state,         \* StatusLed::_state
    _lastToggle,    \* StatusLed::_lastToggle
    clock,          \* the value millis() returns
    pinModeOf,      \* hardware: direction of every pin
    pinLevelOf,     \* hardware: level last written to every pin
    sinceStamp,     \* ghost: true ms since _lastToggle was stamped (saturating)
    last,           \* ghost: record of the most recent step
    trace,          \* ghost (scenario): the calls made so far; (two contexts):
                    \* the contexts that passed the test since the last store
    fixedInterval,  \* sketch (loop): the interval loop() passes to blink
    phase,          \* sketch: "setup" | "loop" | "fresh" | "first" | "free";
                    \* (two contexts): "serial" | "concurrent"
    polled,         \* sketch (loop): blink was called since the clock moved
    pc,             \* stepwise blink: position of every execution context
    nowOf,          \* stepwise blink: the local `now` of every context
    argOf,          \* stepwise blink: the intervalMs of every context
    readsOf,        \* ghost (stepwise): millis() reads of the current call
    writesOf,       \* ghost (stepwise): digitalWrite calls of the current call
    movedOf,        \* ghost (stepwise): the clock moved during the current call
    tmpOf           \* two contexts: the value of _state a context has loaded

objVars   == <<_pin, _state, _lastToggle>>
hwVars    == <<pinModeOf, pinLevelOf>>
sketchVars == <<fixedInterval, phase, polled>>
stepVars  == <<pc, nowOf, argOf, readsOf, writesOf, movedOf, tmpOf>>
vars == <<ulongBits, _pin, _state, _lastToggle, clock, pinModeOf, pinLevelOf,
          sinceStamp, last, trace, fixedInterval, phase, polled,
          pc, nowOf, argOf, readsOf, writesOf, movedOf, tmpOf>>

(***************************************************************************)
(* unsigned long arithmetic.                                               *)
(***************************************************************************)
Modulus == 2 ^ ulongBits
ULong   == 0 .. (Modulus - 1)

\* faulty variant: the difference taken in a signed type, without the wrap
USub_Signed(a, b) == a - b

\* a - b on unsigned long: the difference modulo 2^width
USub(a, b) == (a - b) % Modulus

\* the ghost duration saturates at two full clock periods
StampCap == 2 * Modulus
SatAdd(t, d) == IF t + d >= StampCap THEN StampCap ELSE t + d

(***************************************************************************)
(* The Arduino core, as the class uses it.                                 *)
(***************************************************************************)
millis == clock

pinMode(p, m) == [pinModeOf EXCEPT ![p] = m]

digitalWrite(p, v) == [pinLevelOf EXCEPT ![p] = v]

\* the level blink() passes to digitalWrite: _state ? HIGH : LOW
LevelOf(s) == IF s THEN "HIGH" ELSE "LOW"

(***************************************************************************)
(* Ghost record of the most recent step.                                   *)
(***************************************************************************)
Pre == [state |-> _state, lastToggle |-> _lastToggle, pin |-> _pin,
        levels |-> pinLevelOf, modes |-> pinModeOf, sinceStamp |-> sinceStamp]

NoCall == [op |-> "none", intervalMs |-> 0, now |-> 0, reads |-> 0,
           writes |-> <<>>, pre |-> Pre]

(***************************************************************************)
(* StatusLed::StatusLed(pin): _pin(pin), _state(false), _lastToggle(0)     *)
(***************************************************************************)
StatusLed(pin) ==
    /\ _pin = pin
    /\ _state = FALSE
    /\ _lastToggle = 0

(***************************************************************************)
(* void StatusLed::begin()                                                 *)
(***************************************************************************)
\* faulty variant: begin() that also resets _state
begin_Reset ==
    /\ pinModeOf' = pinMode(_pin, "OUTPUT")
    /\ pinLevelOf' = digitalWrite(_pin, "LOW")
    /\ _state' = FALSE
    /\ UNCHANGED <<_pin, _lastToggle>>
    /\ last' = [op |-> "begin", intervalMs |-> 0, now |-> 0, reads |-> 0,
                writes |-> << <<_pin, "LOW">> >>, pre |-> Pre]

\* faulty variant: begin() that restarts the timing at the current clock
begin_Restamp ==
    /\ pinModeOf' = pinMode(_pin, "OUTPUT")
    /\ pinLevelOf' = digitalWrite(_pin, "LOW")
    /\ _lastToggle' = millis
    /\ UNCHANGED <<_pin, _state>>
    /\ last' = [op |-> "begin", intervalMs |-> 0, now |-> 0, reads |-> 0,
                writes |-> << <<_pin, "LOW">> >>, pre |-> Pre]

begin ==
    /\ pinModeOf' = pinMode(_pin, "OUTPUT")
    /\ pinLevelOf' = digitalWrite(_pin, "LOW")
    /\ UNCHANGED <<_pin, _state, _lastToggle>>
    /\ last' = [op |-> "begin", intervalMs |-> 0, now |-> 0, reads |-> 0,
                writes |-> << <<_pin, "LOW">> >>, pre |-> Pre]

(***************************************************************************)
(* void StatusLed::blink(unsigned long intervalMs)                         *)
(***************************************************************************)
\* faulty variant: > in place of >=
Elapsed_Strict(now, intervalMs) == USub(now, _lastToggle) > intervalMs

\* faulty variant: the clock compared with the interval, _lastToggle forgotten
Elapsed_Absolute(now, intervalMs) == now >= intervalMs

\* the condition of the if: now - _lastToggle >= intervalMs
Elapsed(now, intervalMs) == USub(now, _lastToggle) >= intervalMs

\* faulty variant: the toggle without the store of line 16
blink_NoStamp(intervalMs) ==
    LET now == millis IN
    IF Elapsed(now, intervalMs)
    THEN /\ _state' = ~_state
         /\ pinLevelOf' = digitalWrite(_pin, LevelOf(_state'))
         /\ UNCHANGED <<_pin, _lastToggle, pinModeOf, sinceStamp>>
         /\ last' = [op |-> "blink", intervalMs |-> intervalMs, now |-> now,
                     reads |-> 1, writes |-> << <<_pin, LevelOf(_state')>> >>,
                     pre |-> Pre]
    ELSE /\ UNCHANGED <<_pin, _state, _lastToggle, pinModeOf, pinLevelOf, sinceStamp>>
         /\ last' = [op |-> "blink", intervalMs |-> intervalMs, now |-> now,
                     reads |-> 1, writes |-> <<>>, pre |-> Pre]

\* faulty variant: the stamp advanced by the interval (_lastToggle +=
\* intervalMs) in place of the store of the clock
blink_CatchUp(intervalMs) ==
    LET now == millis IN
    IF Elapsed(now, intervalMs)
    THEN /\ _state' = ~_state
         /\ pinLevelOf' = digitalWrite(_pin, LevelOf(_state'))
         /\ _lastToggle' = (_lastToggle + intervalMs) % Modulus
         /\ sinceStamp' = 0
         /\ UNCHANGED <<_pin, pinModeOf>>
         /\ last' = [op |-> "blink", intervalMs |-> intervalMs, now |-> now,
                     reads |-> 1, writes |-> << <<_pin, LevelOf(_state')>> >>,
                     pre |-> Pre]
    ELSE /\ UNCHANGED <<_pin, _state, _lastToggle, pinModeOf, pinLevelOf, sinceStamp>>
         /\ last' = [op |-> "blink", intervalMs |-> intervalMs, now |-> now,
                     reads |-> 1, writes |-> <<>>, pre |-> Pre]

blink(intervalMs) ==
    LET now == millis IN
    IF Elapsed(now, intervalMs)
    THEN /\ _state' = ~_state
         /\ pinLevelOf' = digitalWrite(_pin, LevelOf(_state'))
         /\ _lastToggle' = now
         /\ sinceStamp' = 0
         /\ UNCHANGED <<_pin, pinModeOf>>
         /\ last' = [op |-> "blink", intervalMs |-> intervalMs, now |-> now,
                     reads |-> 1, writes |-> << <<_pin, LevelOf(_state')>> >>,
                     pre |-> Pre]
    ELSE /\ UNCHANGED <<_pin, _state, _lastToggle, pinModeOf, pinLevelOf, sinceStamp>>
         /\ last' = [op |-> "blink", intervalMs |-> intervalMs, now |-> now,
                     reads |-> 1, writes |-> <<>>, pre |-> Pre]

(***************************************************************************)
(* The millisecond clock: advances by one and wraps at its maximum.        *)
(***************************************************************************)
ClockTick ==
    /\ clock' = (clock + 1) % Modulus
    /\ sinceStamp' = SatAdd(sinceStamp, 1)

(***************************************************************************)
(* General specification: any sequence of begin() and blink(i) calls, with *)
(* the clock advancing freely in between.                                  *)
(***************************************************************************)
NoSketch ==
    /\ trace = <<>>
    /\ fixedInterval = 0
    /\ phase = "free"
    /\ polled = FALSE

\* every execution context of Ctx is outside blink()
NoSteps(Ctx) ==
    /\ pc = [c \in Ctx |-> "idle"]
    /\ nowOf = [c \in Ctx |-> 0]
    /\ argOf = [c \in Ctx |-> 0]
    /\ readsOf = [c \in Ctx |-> 0]
    /\ writesOf = [c \in Ctx |-> 0]
    /\ movedOf = [c \in Ctx |-> FALSE]
    /\ tmpOf = [c \in Ctx |-> FALSE]

Init ==
    /\ ulongBits = ClockBits
    /\ \E p \in Pins : StatusLed(p)
    /\ clock \in ULong
    /\ sinceStamp = clock
    /\ pinModeOf = [p \in Pins |-> "INPUT"]
    /\ pinLevelOf = [p \in Pins |-> "NONE"]
    /\ last = NoCall
    /\ NoSketch
    /\ NoSteps({"loop"})

CallBegin ==
    /\ begin
    /\ UNCHANGED <<ulongBits, clock, sinceStamp, trace, sketchVars, stepVars>>

CallBlink ==
    \E i \in ULong :
        /\ blink(i)
        /\ UNCHANGED <<ulongBits, clock, trace, sketchVars, stepVars>>

Tick ==
    /\ ClockTick
    /\ last' = [NoCall EXCEPT !.op = "clock"]
    /\ UNCHANGED <<ulongBits, objVars, hwVars, trace, sketchVars, stepVars>>

Next == CallBegin \/ CallBlink \/ Tick

Spec == Init /\ [][Next]_vars

(***************************************************************************)
(* Reference scenario: pin 13, begin(), then blink(500) polled while the   *)
(* clock moves through 0, 500, 800 and 1000.  The specification lets the   *)
(* sketch make any calls at those clock values; `trace` records them.      *)
(***************************************************************************)
Scenario ==
    << [op |-> "begin", at |-> 0,    intervalMs |-> 0],
       [op |-> "blink", at |-> 0,    intervalMs |-> 500],
       [op |-> "blink", at |-> 500,  intervalMs |-> 500],
       [op |-> "blink", at |-> 800,  intervalMs |-> 500],
       [op |-> "blink", at |-> 1000, intervalMs |-> 500] >>

ScenarioClocks == {Scenario[k].at : k \in DOMAIN Scenario}
ScenarioIntervals == {Scenario[k].intervalMs : k \in 2 .. Len(Scenario)}

ScenarioInit ==
    /\ ulongBits = ScenarioBits
    /\ StatusLed(13)
    /\ clock = 0
    /\ sinceStamp = 0
    /\ pinModeOf = [p \in Pins |-> "INPUT"]
    /\ pinLevelOf = [p \in Pins |-> "NONE"]
    /\ last = NoCall
    /\ NoSketch
    /\ NoSteps({"loop"})

ScenarioBegin ==
    /\ Len(trace) < MaxTrace
    /\ begin
    /\ trace' = Append(trace, [op |-> "begin", at |-> clock, intervalMs |-> 0])
    /\ UNCHANGED <<ulongBits, clock, sinceStamp, sketchVars, stepVars>>

ScenarioBlink ==
    \E i \in ScenarioIntervals :
        /\ Len(trace) < MaxTrace
        /\ blink(i)
        /\ trace' = Append(trace, [op |-> "blink", at |-> clock, intervalMs |-> i])
        /\ UNCHANGED <<ulongBits, clock, sketchVars, stepVars>>

ScenarioClock ==
    \E t \in ScenarioClocks \cap ULong :
        /\ t > clock
        /\ clock' = t
        /\ sinceStamp' = SatAdd(sinceStamp, t - clock)
        /\ last' = [NoCall EXCEPT !.op = "clock"]
        /\ UNCHANGED <<ulongBits, objVars, hwVars, trace, sketchVars, stepVars>>

ScenarioNext == ScenarioBegin \/ ScenarioBlink \/ ScenarioClock

ScenarioSpec == ScenarioInit /\ [][ScenarioNext]_vars

(***************************************************************************)
(* Stepwise blink(): one action per statement of StatusLed.cpp lines       *)
(* 12-17, run by an execution context c.  pc[c] names the line the context *)
(* is about to execute; "ret" is the closing brace, "idle" is outside the  *)
(* call.  The clock may move, or stand still, between any two steps.  The  *)
(* ghost sinceStamp is not tracked here.                                   *)
(***************************************************************************)
StepInit ==
    /\ ulongBits = StepBits
    /\ StatusLed(13)
    /\ clock \in ULong
    /\ sinceStamp = 0
    /\ pinModeOf = [p \in Pins |-> IF p = 13 THEN "OUTPUT" ELSE "INPUT"]
    /\ pinLevelOf = [p \in Pins |-> IF p = 13 THEN "LOW" ELSE "NONE"]
    /\ last = NoCall
    /\ NoSketch
    /\ NoSteps({"loop"})

\* the caller enters blink(intervalMs)
StepCall(c) ==
    \E i \in ULong :
        /\ pc[c] = "idle"
        /\ pc' = [pc EXCEPT ![c] = "L12"]
        /\ argOf' = [argOf EXCEPT ![c] = i]
        /\ readsOf' = [readsOf EXCEPT ![c] = 0]
        /\ writesOf' = [writesOf EXCEPT ![c] = 0]
        /\ movedOf' = [movedOf EXCEPT ![c] = FALSE]
        /\ UNCHANGED <<objVars, hwVars, clock, nowOf>>

\* line 12: unsigned long now = millis();
StepRead(c) ==
    /\ pc[c] = "L12"
    /\ nowOf' = [nowOf EXCEPT ![c] = millis]
    /\ readsOf' = [readsOf EXCEPT ![c] = @ + 1]
    /\ pc' = [pc EXCEPT ![c] = "L13"]
    /\ UNCHANGED <<objVars, hwVars, clock, argOf, writesOf, movedOf>>

\* faulty variant: a blocking wait: re-read the clock until the interval has elapsed
StepTest_Wait(c) ==
    /\ pc[c] = "L13"
    /\ pc' = [pc EXCEPT ![c] =
                 IF Elapsed(nowOf[c], argOf[c]) THEN "L14" ELSE "L12"]
    /\ UNCHANGED <<objVars, hwVars, clock, nowOf, argOf, readsOf, writesOf, movedOf>>

\* line 13: if (now - _lastToggle >= intervalMs) {
StepTest(c) ==
    /\ pc[c] = "L13"
    /\ pc' = [pc EXCEPT ![c] =
                 IF Elapsed(nowOf[c], argOf[c]) THEN "L14" ELSE "ret"]
    /\ UNCHANGED <<objVars, hwVars, clock, nowOf, argOf, readsOf, writesOf, movedOf>>

\* line 14: _state = !_state;
StepFlip(c) ==
    /\ pc[c] = "L14"
    /\ _state' = ~_state
    /\ pc' = [pc EXCEPT ![c] = "L15"]
    /\ UNCHANGED <<_pin, _lastToggle, hwVars, clock, nowOf, argOf, readsOf,
                   writesOf, movedOf>>

\* line 15: digitalWrite(_pin, _state ? HIGH : LOW);
StepWrite(c) ==
    /\ pc[c] = "L15"
    /\ pinLevelOf' = digitalWrite(_pin, LevelOf(_state))
    /\ writesOf' = [writesOf EXCEPT ![c] = @ + 1]
    /\ pc' = [pc EXCEPT ![c] = "L16"]
    /\ UNCHANGED <<objVars, pinModeOf, clock, nowOf, argOf, readsOf, movedOf>>

\* line 16: _lastToggle = now;
StepStore(c) ==
    /\ pc[c] = "L16"
    /\ _lastToggle' = nowOf[c]
    /\ pc' = [pc EXCEPT ![c] = "ret"]
    /\ UNCHANGED <<_pin, _state, hwVars, clock, nowOf, argOf, readsOf,
                   writesOf, movedOf>>

\* line 18: the call returns; its locals are gone
StepReturn(c) ==
    /\ pc[c] = "ret"
    /\ pc' = [pc EXCEPT ![c] = "idle"]
    /\ nowOf' = [nowOf EXCEPT ![c] = 0]
    /\ argOf' = [argOf EXCEPT ![c] = 0]
    /\ readsOf' = [readsOf EXCEPT ![c] = 0]
    /\ writesOf' = [writesOf EXCEPT ![c] = 0]
    /\ movedOf' = [movedOf EXCEPT ![c] = FALSE]
    /\ UNCHANGED <<objVars, hwVars, clock>>

\* what no step of the stepwise specification changes
StepFrame == UNCHANGED <<ulongBits, sinceStamp, last, trace, sketchVars, tmpOf>>

\* the statements of one blink() call by context c
BlinkStep(c) ==
    /\ \/ StepRead(c)
       \/ StepTest(c)
       \/ StepFlip(c)
       \/ StepWrite(c)
       \/ StepStore(c)
       \/ StepReturn(c)
    /\ StepFrame

\* the clock moves by one; every call in progress sees it move
StepTick ==
    /\ clock' = (clock + 1) % Modulus
    /\ movedOf' = [c \in DOMAIN pc |-> movedOf[c] \/ pc[c] # "idle"]
    /\ UNCHANGED <<objVars, hwVars, pc, nowOf, argOf, readsOf, writesOf>>

StepNext ==
    \/ \E c \in DOMAIN pc : StepCall(c) /\ StepFrame
    \/ \E c \in DOMAIN pc : BlinkStep(c)
    \/ StepTick /\ StepFrame

\* The processor keeps executing a call it has entered; nothing is assumed
\* about the clock or about the caller making further calls.
StepSpec ==
    /\ StepInit
    /\ [][StepNext]_vars
    /\ \A c \in {"loop"} : WF_vars(BlinkStep(c))

(***************************************************************************)
(* Two execution contexts calling blink(fixedInterval) on one object.      *)
(* blink() takes no lock and its accesses to _state and _lastToggle are    *)
(* plain loads and stores, so the steps of the two calls interleave at the *)
(* level of single memory accesses: line 14 is a load of _state followed   *)
(* by a store of its negation, line 15 a load of _state followed by the    *)
(* digitalWrite call.  phase says whether the callers serialize the calls  *)
(* ("serial": a call is entered only while no other call is in progress)   *)
(* or not ("concurrent").                                                  *)
(***************************************************************************)
Contexts == {"loop", "task"}

ConcInit ==
    /\ ulongBits = ConcBits
    /\ StatusLed(13)
    /\ clock \in ULong
    /\ sinceStamp = 0
    /\ pinModeOf = [p \in Pins |-> IF p = 13 THEN "OUTPUT" ELSE "INPUT"]
    /\ pinLevelOf = [p \in Pins |-> IF p = 13 THEN "LOW" ELSE "NONE"]
    /\ last = NoCall
    /\ trace = <<>>
    /\ fixedInterval \in ULong
    /\ phase \in {"serial", "concurrent"}
    /\ polled = FALSE
    /\ NoSteps(Contexts)

\* context c enters blink(fixedInterval); serialized callers wait for the
\* call in progress to return
ConcCall(c) ==
    /\ pc[c] = "idle"
    /\ phase = "serial" => \A d \in DOMAIN pc : pc[d] = "idle"
    /\ pc' = [pc EXCEPT ![c] = "L12"]
    /\ argOf' = [argOf EXCEPT ![c] = fixedInterval]
    /\ readsOf' = [readsOf EXCEPT ![c] = 0]
    /\ writesOf' = [writesOf EXCEPT ![c] = 0]
    /\ UNCHANGED <<objVars, hwVars, clock, nowOf, movedOf, tmpOf, trace>>

\* line 12
ConcRead(c) ==
    /\ StepRead(c)
    /\ UNCHANGED <<tmpOf, trace>>

\* line 13; a test that passes is noted in trace
ConcTest(c) ==
    /\ StepTest(c)
    /\ trace' = IF pc'[c] = "L14" THEN Append(trace, c) ELSE trace
    /\ UNCHANGED tmpOf

\* line 14, first half: load _state
ConcFlipLoad(c) ==
    /\ pc[c] = "L14"
    /\ tmpOf' = [tmpOf EXCEPT ![c] = _state]
    /\ pc' = [pc EXCEPT ![c] = "L14s"]
    /\ UNCHANGED <<objVars, hwVars, clock, nowOf, argOf, readsOf, writesOf,
                   movedOf, trace>>

\* line 14, second half: store the negation of the value loaded
ConcFlipStore(c) ==
    /\ pc[c] = "L14s"
    /\ _state' = ~tmpOf[c]
    /\ pc' = [pc EXCEPT ![c] = "L15"]
    /\ UNCHANGED <<_pin, _lastToggle, hwVars, clock, nowOf, argOf, readsOf,
                   writesOf, movedOf, tmpOf, trace>>

\* faulty variant: the level inverted (_state ? LOW : HIGH)
ConcWriteLoad_Inverted(c) ==
    /\ pc[c] = "L15"
    /\ tmpOf' = [tmpOf EXCEPT ![c] = ~_state]
    /\ pc' = [pc EXCEPT ![c] = "L15w"]
    /\ UNCHANGED <<objVars, hwVars, clock, nowOf, argOf, readsOf, writesOf,
                   movedOf, trace>>

\* line 15, first half: load _state to choose the level
ConcWriteLoad(c) ==
    /\ pc[c] = "L15"
    /\ tmpOf' = [tmpOf EXCEPT ![c] = _state]
    /\ pc' = [pc EXCEPT ![c] = "L15w"]
    /\ UNCHANGED <<objVars, hwVars, clock, nowOf, argOf, readsOf, writesOf,
                   movedOf, trace>>

\* line 15, second half: digitalWrite(_pin, level chosen)
ConcWriteCall(c) ==
    /\ pc[c] = "L15w"
    /\ pinLevelOf' = digitalWrite(_pin, LevelOf(tmpOf[c]))
    /\ writesOf' = [writesOf EXCEPT ![c] = @ + 1]
    /\ pc' = [pc EXCEPT ![c] = "L16"]
    /\ UNCHANGED <<objVars, pinModeOf, clock, nowOf, argOf, readsOf, movedOf,
                   tmpOf, trace>>

\* line 16; the store starts a new interval
ConcStore(c) ==
    /\ StepStore(c)
    /\ trace' = <<>>
    /\ UNCHANGED tmpOf

\* line 18
ConcReturn(c) ==
    /\ StepReturn(c)
    /\ UNCHANGED <<tmpOf, trace>>

ConcFrame == UNCHANGED <<ulongBits, sinceStamp, last, sketchVars>>

ConcStep(c) ==
    /\ \/ ConcCall(c)
       \/ ConcRead(c)
       \/ ConcTest(c)
       \/ ConcFlipLoad(c)
       \/ ConcFlipStore(c)
       \/ ConcWriteLoad(c)
       \/ ConcWriteCall(c)
       \/ ConcStore(c)
       \/ ConcReturn(c)
    /\ ConcFrame

ConcTick ==
    /\ clock' = (clock + 1) % Modulus
    /\ UNCHANGED <<objVars, hwVars, stepVars, trace>>
    /\ ConcFrame

ConcNext ==
    \/ \E c \in DOMAIN pc : ConcStep(c)
    \/ ConcTick

ConcSpec == ConcInit /\ [][ConcNext]_vars

(***************************************************************************)
(* The polling sketch: setup() calls begin() once, then loop() calls       *)
(* blink(fixedInterval) again and again, at least once in every            *)
(* millisecond of the clock, which never stops.                            *)
(***************************************************************************)
LoopInit ==
    /\ ulongBits = ClockBits
    /\ \E p \in Pins : StatusLed(p)
    /\ clock \in ULong
    /\ sinceStamp = clock
    /\ pinModeOf = [p \in Pins |-> "INPUT"]
    /\ pinLevelOf = [p \in Pins |-> "NONE"]
    /\ last = NoCall
    /\ trace = <<>>
    /\ fixedInterval \in ULong
    /\ phase = "setup"
    /\ polled = FALSE
    /\ NoSteps({"loop"})

LoopSetup ==
    /\ phase = "setup"
    /\ begin
    /\ phase' = "loop"
    /\ UNCHANGED <<ulongBits, clock, sinceStamp, trace, fixedInterval, polled, stepVars>>

LoopBlink ==
    /\ phase = "loop"
    /\ blink(fixedInterval)
    /\ polled' = TRUE
    /\ UNCHANGED <<ulongBits, clock, trace, fixedInterval, phase, stepVars>>

LoopTick ==
    /\ phase = "setup" \/ polled
    /\ ClockTick
    /\ polled' = FALSE
    /\ last' = [NoCall EXCEPT !.op = "clock"]
    /\ UNCHANGED <<ulongBits, objVars, hwVars, trace, fixedInterval, phase, stepVars>>

LoopNext == LoopSetup \/ LoopBlink \/ LoopTick

LoopSpec ==
    /\ LoopInit
    /\ [][LoopNext]_vars
    /\ WF_vars(LoopSetup)
    /\ WF_vars(LoopBlink)
    /\ WF_vars(LoopTick)

(***************************************************************************)
(* The first blink() call of an object.  As the general specification,     *)
(* with phase telling whether blink() has been called: "fresh" until the   *)
(* first call, "first" right after it, "free" from the next step on.       *)
(***************************************************************************)
FirstInit ==
    /\ ulongBits = ClockBits
    /\ \E p \in Pins : StatusLed(p)
    /\ clock \in ULong
    /\ sinceStamp = clock
    /\ pinModeOf = [p \in Pins |-> "INPUT"]
    /\ pinLevelOf = [p \in Pins |-> "NONE"]
    /\ last = NoCall
    /\ trace = <<>>
    /\ fixedInterval = 0
    /\ phase = "fresh"
    /\ polled = FALSE
    /\ NoSteps({"loop"})

\* the phase after a step that is no blink() call
AfterOther == IF phase = "first" THEN "free" ELSE phase

FirstBegin ==
    /\ begin
    /\ phase' = AfterOther
    /\ UNCHANGED <<ulongBits, clock, sinceStamp, trace, fixedInterval, polled, stepVars>>

FirstBlink ==
    \E i \in ULong :
        /\ blink(i)
        /\ phase' = IF phase = "fresh" THEN "first" ELSE "free"
        /\ UNCHANGED <<ulongBits, clock, trace, fixedInterval, polled, stepVars>>

FirstTick ==
    /\ ClockTick
    /\ last' = [NoCall EXCEPT !.op = "clock"]
    /\ phase' = AfterOther
    /\ UNCHANGED <<ulongBits, objVars, hwVars, trace, fixedInterval, polled, stepVars>>

FirstNext == FirstBegin \/ FirstBlink \/ FirstTick

FirstSpec == FirstInit /\ [][FirstNext]_vars

(***************************************************************************)
(* Free polling with a fixed interval: blink(fixedInterval) and begin()    *)
(* are called at any times, as often or as seldom as the caller likes,     *)
(* one call at a time, while the clock advances and wraps.  sinceStamp     *)
(* counts the true milliseconds since the last toggle (since clock zero    *)
(* before the first one).                                                  *)
(***************************************************************************)
SpacingInit ==
    /\ ulongBits = ClockBits
    /\ \E p \in Pins : StatusLed(p)
    /\ clock \in ULong
    /\ sinceStamp = clock
    /\ pinModeOf = [p \in Pins |-> "INPUT"]
    /\ pinLevelOf = [p \in Pins |-> "NONE"]
    /\ last = NoCall
    /\ trace = <<>>
    /\ fixedInterval \in ULong
    /\ phase = "free"
    /\ polled = FALSE
    /\ NoSteps({"loop"})

SpacingBegin ==
    /\ begin
    /\ UNCHANGED <<ulongBits, clock, sinceStamp, trace, sketchVars, stepVars>>

SpacingBlink ==
    /\ blink(fixedInterval)
    /\ UNCHANGED <<ulongBits, clock, trace, sketchVars, stepVars>>

SpacingTick ==
    /\ ClockTick
    /\ last' = [NoCall EXCEPT !.op = "clock"]
    /\ UNCHANGED <<ulongBits, objVars, hwVars, trace, sketchVars, stepVars>>

SpacingNext == SpacingBegin \/ SpacingBlink \/ SpacingTick

SpacingSpec == SpacingInit /\ [][SpacingNext]_vars

(***************************************************************************)
(* Properties of single calls, read off the ghost record `last`.           *)
(***************************************************************************)
\* the most recent step was a blink() call / a begin() call
JustBlinked == last.op = "blink"
JustBegun   == last.op = "begin"

\* the elapsed time of the most recent blink() call, modulo the clock width
LastElapsed == (last.now - last.pre.lastToggle) % Modulus

\* the level of the LED pin now and just before the most recent call
PinLevel    == pinLevelOf[_pin]
PrePinLevel == last.pre.levels[last.pre.pin]

\* C1: a blink(intervalMs) call made when (now - _lastToggle) mod 2^w is
\* strictly less than intervalMs is a no-op: _state, _lastToggle and every
\* pin level and mode are unchanged and no pin write is issued.
C1_NoOpBeforeInterval ==
    (JustBlinked /\ LastElapsed < last.intervalMs) =>
        /\ _state = last.pre.state
        /\ _lastToggle = last.pre.lastToggle
        /\ pinLevelOf = last.pre.levels
        /\ pinModeOf = last.pre.modes
        /\ last.writes = <<>>

\* C1 witness: a no-op call with the LED on, after the clock has wrapped
C1_Witness ==
    /\ JustBlinked
    /\ LastElapsed < last.intervalMs
    /\ LastElapsed > 0
    /\ last.now < last.pre.lastToggle
    /\ last.pre.state = TRUE

\* C2: a blink(intervalMs) call made when (now - _lastToggle) mod 2^w is at
\* least intervalMs flips _state once (the new value is the negation of the
\* old), issues exactly one pin write, of the level matching the new
\* _state, to _pin, and sets _lastToggle to the clock value read in the call.
C2_ToggleOnThreshold ==
    (JustBlinked /\ LastElapsed >= last.intervalMs) =>
        /\ _state = ~last.pre.state
        /\ last.writes = << <<_pin, LevelOf(_state)>> >>
        /\ PinLevel = LevelOf(_state)
        /\ last.reads = 1
        /\ last.now = clock
        /\ _lastToggle = clock

\* C2 witness: a toggle exactly on the threshold, from HIGH back to LOW
C2_Witness ==
    /\ JustBlinked
    /\ last.intervalMs > 0
    /\ LastElapsed = last.intervalMs
    /\ last.pre.state = TRUE
    /\ _state = FALSE
    /\ PinLevel = "LOW"

\* the clock has wrapped once since _lastToggle was stamped: the clock read
\* is numerically below the stamp and less than one period has gone by
WrappedOnce ==
    /\ JustBlinked
    /\ last.now < last.pre.lastToggle
    /\ last.pre.sinceStamp < Modulus

\* C3: when the clock has wrapped past the maximum since the last toggle,
\* the unsigned subtraction now - _lastToggle equals the true duration since
\* that toggle, and blink toggles exactly when that true duration is at
\* least intervalMs, as it does without a wrap.
C3_WraparoundSafe ==
    WrappedOnce =>
        /\ USub(last.now, last.pre.lastToggle) = last.pre.sinceStamp
        /\ (_state # last.pre.state) <=> (last.pre.sinceStamp >= last.intervalMs)
        /\ (_lastToggle = last.now) <=> (last.pre.sinceStamp >= last.intervalMs)

\* C3 witness: stamp at the maximum, clock wrapped to 1, a toggle after 2 ms
C3_Witness ==
    /\ WrappedOnce
    /\ last.pre.lastToggle = Modulus - 1
    /\ last.now = 1
    /\ last.intervalMs = 2
    /\ _state # last.pre.state

\* C4: immediately after any begin() call the pin is LOW and _state is false.
C4_AfterBeginLow ==
    JustBegun => (PinLevel = "LOW" /\ _state = FALSE)

\* C5: once the pin has been written, _state is true exactly when the pin
\* was last written HIGH.
C5_StateMatchesPin ==
    (PinLevel # "NONE") => (_state <=> (PinLevel = "HIGH"))

\* C9: begin() changes only the pin's mode and level: _state, _lastToggle and
\* _pin are as before the call and the other pins are untouched; so a step
\* that changed _state or _lastToggle was a blink() call.
C9_BeginFrame ==
    /\ JustBegun =>
          /\ _state = last.pre.state
          /\ _lastToggle = last.pre.lastToggle
          /\ _pin = last.pre.pin
          /\ pinModeOf = [last.pre.modes EXCEPT ![_pin] = "OUTPUT"]
          /\ pinLevelOf = [last.pre.levels EXCEPT ![_pin] = "LOW"]
    /\ (_state # last.pre.state \/ _lastToggle # last.pre.lastToggle) => JustBlinked

\* C9 witness: begin() called while _state is true and a stamp is stored
C9_Witness ==
    /\ JustBegun
    /\ _state = TRUE
    /\ _lastToggle > 0
    /\ PrePinLevel = "HIGH"

\* C10: every toggling blink() call changes the level of the pin.
C10_ToggleChangesPin ==
    (JustBlinked /\ LastElapsed >= last.intervalMs) => PinLevel # PrePinLevel

\* the calls made so far are exactly the first k calls of the scenario
ScenarioAt(k) == trace = SubSeq(Scenario, 1, k)

\* C6: the reference scenario.  After begin() the pin is LOW; blink(500) at
\* clock 0 does not toggle; blink(500) at clock 500 toggles to HIGH and
\* stores 500; blink(500) at clock 800 does not toggle; blink(500) at clock
\* 1000 toggles to LOW and stores 1000.
C6_Scenario ==
    /\ ScenarioAt(1) => PinLevel = "LOW"
    /\ ScenarioAt(2) =>
          /\ _state = FALSE /\ PinLevel = "LOW" /\ _lastToggle = 0
          /\ JustBlinked => last.writes = <<>>
    /\ ScenarioAt(3) =>
          /\ _state = TRUE /\ PinLevel = "HIGH" /\ _lastToggle = 500
          /\ JustBlinked => last.writes = << <<13, "HIGH">> >>
    /\ ScenarioAt(4) =>
          /\ _state = TRUE /\ PinLevel = "HIGH" /\ _lastToggle = 500
          /\ JustBlinked => last.writes = <<>>
    /\ ScenarioAt(5) =>
          /\ _state = FALSE /\ PinLevel = "LOW" /\ _lastToggle = 1000
          /\ JustBlinked => last.writes = << <<13, "LOW">> >>

\* C6 witness: the whole scenario has been played, the last call just made
C6_Witness ==
    /\ ScenarioAt(5)
    /\ JustBlinked
    /\ clock = 1000

\* C7: blink is non-blocking.  A call that has been entered always reaches
\* its return, with no assumption that the clock ever moves; at the return
\* it has read the clock exactly once and written the pin at most once.
C7_NonBlocking ==
    /\ [](pc["loop"] = "ret" => (readsOf["loop"] = 1 /\ writesOf["loop"] <= 1))
    /\ (pc["loop"] = "L12") ~> (pc["loop"] = "ret")
    /\ (pc["loop"] = "ret") ~> (pc["loop"] = "idle")

\* C7 witness: a call that waited for an interval not yet elapsed returns
\* with the clock never having moved during the call
C7_Witness ==
    /\ pc["loop"] = "ret"
    /\ ~movedOf["loop"]
    /\ argOf["loop"] > USub(nowOf["loop"], _lastToggle)
    /\ readsOf["loop"] = 1
    /\ writesOf["loop"] = 0
    /\ _state = TRUE

\* C8: in the polling sketch the blinking never ends.  begin() leaves the
\* output LOW, every pin write of blink() changes the level (LOW to HIGH or
\* HIGH to LOW), and the pin is HIGH infinitely often and LOW infinitely
\* often, whatever the fixed interval.
C8_BlinksForever ==
    /\ [](JustBegun => (PinLevel = "LOW" /\ _state = FALSE))
    /\ [][(last'.op = "blink" /\ last'.writes # <<>>) =>
             pinLevelOf'[_pin] # pinLevelOf[_pin]]_vars
    /\ []<>(PinLevel = "HIGH")
    /\ []<>(PinLevel = "LOW")

\* C8 witness: with the longest interval, the output is back LOW after
\* having been HIGH, the clock having wrapped in between
C8_Witness ==
    /\ phase = "loop"
    /\ fixedInterval = Modulus - 1
    /\ JustBlinked
    /\ last.pre.state = TRUE
    /\ _state = FALSE
    /\ PinLevel = "LOW"
    /\ last.now < last.pre.lastToggle

\* C11: until the first blink() call _state is false and _lastToggle is 0,
\* whatever begin() calls were made; so the first blink(intervalMs) call
\* toggles, to HIGH, exactly when the clock value it reads is at least
\* intervalMs, and otherwise changes nothing.
C11_FirstTick ==
    /\ phase = "fresh" => (_state = FALSE /\ _lastToggle = 0)
    /\ phase = "first" =>
          /\ JustBlinked
          /\ (_state = TRUE /\ PinLevel = "HIGH" /\ _lastToggle = last.now)
                <=> (last.now >= last.intervalMs)
          /\ (last.now < last.intervalMs) =>
                (_state = FALSE /\ _lastToggle = 0 /\ last.writes = <<>>)

\* C11 witness: begin() was called with the clock past zero, and the first
\* blink() call toggles to HIGH on a clock value equal to its interval
C11_Witness ==
    /\ phase = "first"
    /\ last.pre.modes[_pin] = "OUTPUT"
    /\ last.pre.levels[_pin] = "LOW"
    /\ last.intervalMs > 0
    /\ last.now = last.intervalMs
    /\ _state = TRUE
    /\ PinLevel = "HIGH"

\* the most recent step was a blink() call that toggled
JustToggled == JustBlinked /\ last.writes # <<>>

\* C12: minimum spacing.  With a fixed interval and one call at a time,
\* every toggle comes at least fixedInterval true milliseconds after the
\* toggle before it, however often or late blink() is polled and whether
\* or not the clock wrapped in between.
C12_MinSpacing ==
    JustToggled => last.pre.sinceStamp >= fixedInterval

\* C12 witness: a second toggle, polled late (more than the interval after
\* the first), with the clock wrapped between the two toggles
C12_Witness ==
    /\ JustToggled
    /\ last.pre.state = TRUE
    /\ fixedInterval > 1
    /\ last.pre.sinceStamp > fixedInterval
    /\ last.pre.sinceStamp < Modulus
    /\ last.now < last.pre.lastToggle
    /\ last.pre.lastToggle > 0

\* two calls passed the test of line 13 on one stored stamp: both toggle
\* for a single elapsed interval
DoubleToggle == Len(trace) >= 2

\* no call is between its store to _state and its pin write
NoPendingWrite == \A c \in DOMAIN pc : pc[c] \notin {"L15", "L15w"}

\* _state differs from the level last written to the pin
StateDiverged == NoPendingWrite /\ (_state # (PinLevel = "HIGH"))

\* C13: when the callers serialize the blink() calls, two calls never
\* toggle for one elapsed interval and _state never differs from the level
\* last written to the pin.  (Without serialization both happen: C13_Witness.)
C13_SerializedSafe ==
    phase = "serial" => (~DoubleToggle /\ ~StateDiverged)

\* C13 witness: two unserialized calls with an interval above zero have both
\* passed the test on one stamp, and _state differs from the level last
\* written to the pin
C13_Witness ==
    /\ phase = "concurrent"
    /\ fixedInterval > 0
    /\ DoubleToggle
    /\ StateDiverged
    /\ \A c \in DOMAIN pc : pc[c] = "L16" /\ writesOf[c] = 1

====
